---- MODULE Spec2Model ----
(***************************************************************************)
(* A model of benchmark.py, the batch harness of landauer_benchmark:       *)
(* main() builds a task list from a benchmark description and optional     *)
(* accept/ignore rules, a multiprocessing pool runs run() once per task,   *)
(* and the non-None results are written as a report.                       *)
(*                                                                         *)
(* The file system is the only state the tasks share.  run() is split at   *)
(* its file-system operations (is_file, open('w'), write/close, read),     *)
(* because the pool's worker processes interleave exactly there.           *)
(* Durations (timer() differences) are left out of the outcomes: no        *)
(* decision of the program reads them.  Paths are the resolved paths that  *)
(* path() returns; design files are never written by the program and are   *)
(* kept apart from the artifact files.  Any step that calls an external    *)
(* computation or writes a file may raise; whether it does is chosen       *)
(* anew at every call.                                                     *)
(***************************************************************************)
EXTENDS Naturals, Sequences, FiniteSets, TLC

VARIABLES
    benchmarks,   \* json.loads(args.benchmarks.read()): a sequence of benchmarks
    accept,       \* args.accept: NoFile, or the rule list of the file
    ignore,       \* args.ignore: NoFile, or the rule list of the file
    overwrite,    \* args.overwrite
    processes,    \* args.processes
    unreadable,   \* which of the given files do not hold valid JSON
    mainPc,       \* position of main()
    collection,   \* main's set of (benchmark name, item name) pairs
    tasks,        \* main's task list
    fs,           \* the files under the working directory
    fs0,          \* fs as it was when the current run began
    pc,           \* per task: position of run()
    local,        \* per task: tree_data, tree_overwritten, entropy_data
    obs,          \* per task: what the task saw and did (history)
    result,       \* per task: what run() returned
    finished,     \* task indices in the order their run() returned
    log,          \* the log records emitted
    report,       \* the rows handed to DataFrame / to_csv
    runNo,        \* which invocation of the program this is
    prev          \* overwrite flag and results of the previous invocation

vars == <<benchmarks, accept, ignore, overwrite, processes, unreadable, mainPc,
          collection, tasks, fs, fs0, pc, local, obs, result, finished, log, report, runNo, prev>>

----------------------------------------------------------------------------
(* Bounds of the model *)

MaxItems == 2       \* items of the description of a run
MaxProcesses == 2   \* largest --processes value
MaxRuns == 2        \* consecutive invocations over the same root
MaxRules == 2       \* longest accept / ignore rule list

----------------------------------------------------------------------------
(* Values *)

\* An optional rule-file argument: not given (None), or given with the rule
\* list read from it.
NoFile == [given |-> FALSE, rules |-> <<>>]
File(rules) == [given |-> TRUE, rules |-> rules]
Range(s) == {s[i] : i \in DOMAIN s}

\* File contents.  st = "absent": no such file; "partial": the file exists
\* but holds no complete serialization (just truncated by open('w'), or
\* garbled); "ok": a complete serialization of the value v.
Absent == [st |-> "absent", v |-> 0]
Partial == [st |-> "partial", v |-> 0]
Text(v) == [st |-> "ok", v |-> v]

\* A tree value is named by the design it was parsed from (designs are named
\* by their path, 1..MaxItems); 0 names a tree left by an earlier revision of
\* a design.  An entropy value is named by the tree value it was computed
\* from.  A local variable not yet assigned holds 0 and is not read.
Paths == 1 .. MaxItems
Names == <<"x", "y", "z", "w">>
ItemName(k) == Names[k]

\* The (benchmark, item) entries of a description, in file order.
RECURSIVE Entries(_)
Entries(bs) ==
    IF bs = <<>> THEN <<>>
    ELSE LET b == Head(bs)
         IN  [j \in 1 .. Len(b.list) |-> [benchmark |-> b.name, item |-> b.list[j]]]
             \o Entries(Tail(bs))

----------------------------------------------------------------------------
(* Rule filter *)

\* check_rule without its "empty list matches every item" case
check_rule_strict(rule, collection_item) ==
    /\ collection_item[1] = rule.benchmark
    /\ \/ "list" \notin DOMAIN rule
       \/ collection_item[2] \in Range(rule.list)

check_rule(rule, collection_item) ==
    LET benchmark_name == collection_item[1]
        benchmark_item == collection_item[2]
    IN  /\ benchmark_name = rule.benchmark
        /\ \/ "list" \notin DOMAIN rule
           \/ Len(rule.list) = 0
           \/ benchmark_item \in Range(rule.list)

\* a filter in which the first rule naming an entry's benchmark decides
apply_rules_first(coll, rules) ==
    {c \in coll :
        \E j \in DOMAIN rules :
            /\ rules[j].benchmark = c[1]
            /\ \A i \in 1 .. (j - 1) : rules[i].benchmark # c[1]
            /\ check_rule(rules[j], c)}

\* set(chain.from_iterable(filter(check_rule(rule), collection) for rule in rules))
RECURSIVE apply_rules(_, _)
apply_rules(coll, rules) ==
    IF rules = <<>> THEN {}
    ELSE {c \in coll : check_rule(Head(rules), c)} \cup apply_rules(coll, Tail(rules))

\* main, line 113: the set of identities of the description
Universe(bs) ==
    {<<e.benchmark, e.item.name>> : e \in Range(Entries(bs))}

\* main, lines 112-113: json.loads raises on text that is not JSON; the set
\* comprehension raises KeyError at a benchmark without 'list', and at an
\* item without 'name' or an item of a benchmark without 'name'
LoadRaises(bs, unr) ==
    \/ "benchmarks" \in unr
    \/ \E i \in DOMAIN bs :
          \/ "list" \notin DOMAIN bs[i]
          \/ \E j \in DOMAIN bs[i].list :
                \/ "name" \notin DOMAIN bs[i]
                \/ "name" \notin DOMAIN bs[i].list[j]

\* main, lines 116-117 and 120-121: json.loads raises on text that is not
\* JSON; check_rule (line 47) raises KeyError at a rule without 'benchmark'
\* when it is called, that is when the collection has an entry to test
RulesRaise(coll, f, unr) ==
    /\ f.given
    /\ \/ unr
       \/ coll # {} /\ \E j \in DOMAIN f.rules : "benchmark" \notin DOMAIN f.rules[j]

\* main, line 115: is the accept pass taken?  (args.accept != None)
AcceptGiven(acc) == acc.given

\* main, lines 115-117
AfterAccept(coll, acc) ==
    IF AcceptGiven(acc) THEN apply_rules(coll, acc.rules) ELSE coll

\* main, lines 119-121
AfterIgnore(coll, ign) ==
    IF ign.given THEN coll \ apply_rules(coll, ign.rules) ELSE coll

\* main, lines 125-126: the entries of the description, in order, whose
\* identity is in the collection
TaskList(bs, coll) ==
    SelectSeq(Entries(bs), LAMBDA e : <<e.benchmark, e.item.name>> \in coll)

----------------------------------------------------------------------------
(* The external collaborators, as far as the harness depends on them *)

\* parse.parse(design_data, majority_support): the tree of that design
Parse(design_data) == design_data

\* entropy.entropy(tree_data, timeout): the entropy of that tree
Entropy(tree_data) == tree_data

\* parse.serialize / entropy.serialize followed by f.write and close
Serialize(v) == Text(v)

\* parse.deserialize(f.read()) raises on anything but a complete serialization
DeserializeRaises(content) == content.st # "ok"
Deserialize(content) == content.v

is_file(content) == content.st # "absent"

----------------------------------------------------------------------------
(* Cache decisions *)

\* the tree decision without the overwrite flag
TreeMiss_existsOnly(ow, exists) == ~exists

\* the entropy decision that never reuses a file
EntropyMiss_always(ow, exists) == TRUE

\* the entropy step given the caller's overwrite flag alone
EntropyOverwriteArg_plain(ow, tree_overwritten) == ow

\* get_tree_data, line 54
TreeMiss(ow, exists) == ow \/ ~exists

\* generate_entropy_data, line 67
EntropyMiss(ow, exists) == ow \/ ~exists

\* run, line 87: the overwrite argument of generate_entropy_data
EntropyOverwriteArg(ow, tree_overwritten) == ow \/ tree_overwritten

----------------------------------------------------------------------------
(* Outcomes of run() *)

Pending == [kind |-> "pending", benchmark |-> "", name |-> "",
            tree_overwritten |-> FALSE, entropy_overwritten |-> FALSE]
\* line 94: return None
None == [kind |-> "None", benchmark |-> "", name |-> "",
         tree_overwritten |-> FALSE, entropy_overwritten |-> FALSE]
\* line 90: the returned tuple, without its two durations
Row(task, tree_overwritten, entropy_overwritten) ==
    [kind |-> "row", benchmark |-> task.benchmark, name |-> task.item.name,
     tree_overwritten |-> tree_overwritten, entropy_overwritten |-> entropy_overwritten]

LogRecord(level, task, msg) ==
    [level |-> level, benchmark |-> task.benchmark, name |-> task.item.name, msg |-> msg]

NoLocal == [tree_data |-> 0, tree_overwritten |-> FALSE, entropy_data |-> 0]
NoObs == [treeSeen |-> "unchecked", entropySeen |-> "unchecked",
          parse |-> FALSE, treeOpened |-> FALSE, treeWrote |-> FALSE,
          entropy |-> FALSE, entropyOpened |-> FALSE, entropyWrote |-> FALSE,
          raised |-> "none"]

TaskIds == DOMAIN tasks
TreePath(t) == tasks[t].item.files.tree
EntropyPath(t) == tasks[t].item.files.entropy
DesignPath(t) == tasks[t].item.files.design

Running(t) == pc[t] \notin {"queued", "done"}

\* results collected in completion order (imap_unordered)
starmap_unordered(res, fin) == [i \in DOMAIN fin |-> res[fin[i]]]

\* pool.starmap, line 129: the list of results, one per task, in task order
starmap(res, fin) == res

\* a report built from every result
FilterNone_keep(res) == res

\* line 131: filter(None, result)
FilterNone(res) == SelectSeq(res, LAMBDA r : r.kind # "None")

----------------------------------------------------------------------------
(* main(), up to the pool *)

args == <<benchmarks, accept, ignore, overwrite, processes, unreadable>>
taskVars == <<pc, local, obs, result, finished>>

\* lines 112-113
MainLoad ==
    /\ mainPc = "load"
    /\ IF LoadRaises(benchmarks, unreadable)
       THEN /\ mainPc' = "aborted"
            /\ UNCHANGED collection
       ELSE /\ collection' = Universe(benchmarks)
            /\ mainPc' = "accept"
    /\ UNCHANGED <<args, tasks, fs, fs0, taskVars, log, report, runNo, prev>>

\* lines 115-117
MainAccept ==
    /\ mainPc = "accept"
    /\ IF RulesRaise(collection, accept, "accept" \in unreadable)
       THEN /\ mainPc' = "aborted"
            /\ UNCHANGED collection
       ELSE /\ collection' = AfterAccept(collection, accept)
            /\ mainPc' = "ignore"
    /\ UNCHANGED <<args, tasks, fs, fs0, taskVars, log, report, runNo, prev>>

\* lines 119-121
MainIgnore ==
    /\ mainPc = "ignore"
    /\ IF RulesRaise(collection, ignore, "ignore" \in unreadable)
       THEN /\ mainPc' = "aborted"
            /\ UNCHANGED collection
       ELSE /\ collection' = AfterIgnore(collection, ignore)
            /\ mainPc' = "tasks"
    /\ UNCHANGED <<args, tasks, fs, fs0, taskVars, log, report, runNo, prev>>

\* lines 123-128: the task list, and the pool with every task queued
MainTasks ==
    /\ mainPc = "tasks"
    /\ tasks' = TaskList(benchmarks, collection)
    /\ pc' = [t \in DOMAIN tasks' |-> "queued"]
    /\ local' = [t \in DOMAIN tasks' |-> NoLocal]
    /\ obs' = [t \in DOMAIN tasks' |-> NoObs]
    /\ result' = [t \in DOMAIN tasks' |-> Pending]
    /\ finished' = <<>>
    /\ mainPc' = "pool"
    /\ UNCHANGED <<args, collection, fs, fs0, log, report, runNo, prev>>

----------------------------------------------------------------------------
(* run(), one task in one worker process *)

\* run() without its try/except: the exception leaves run(), starmap raises
\* it in main() and no report is written
Except_uncaught(t, cause, o, lg) ==
    /\ log' = lg
    /\ result' = result
    /\ pc' = [pc EXCEPT ![t] = "done"]
    /\ obs' = [obs EXCEPT ![t] = [o EXCEPT !.raised = cause]]
    /\ finished' = Append(finished, t)
    /\ mainPc' = "crashed"

\* lines 92-94: the exception is logged and the task returns None.  o is the
\* task's history after the step that raised, lg the log before the handler.
Except(t, cause, o, lg) ==
    /\ log' = lg \cup {LogRecord("error", tasks[t], cause)}
    /\ result' = [result EXCEPT ![t] = None]
    /\ pc' = [pc EXCEPT ![t] = "done"]
    /\ obs' = [obs EXCEPT ![t] = [o EXCEPT !.raised = cause]]
    /\ finished' = Append(finished, t)
    /\ mainPc' = mainPc

\* lines 89-90
Return(t, row, o) ==
    /\ log' = log \cup {LogRecord("info", tasks[t], "completed")}
    /\ result' = [result EXCEPT ![t] = row]
    /\ pc' = [pc EXCEPT ![t] = "done"]
    /\ obs' = [obs EXCEPT ![t] = o]
    /\ finished' = Append(finished, t)
    /\ mainPc' = mainPc

\* a step of run() that neither returns nor raises
Goto(t, label, o) ==
    /\ pc' = [pc EXCEPT ![t] = label]
    /\ obs' = [obs EXCEPT ![t] = o]
    /\ UNCHANGED <<log, result, finished, mainPc>>

\* The pool hands the next queued task to a free worker (starmap, line 129;
\* with at most 4 * processes tasks the chunk size is 1), and run() logs the
\* start, checks and reads the design: lines 76-81.
RunStart(t) ==
    /\ mainPc = "pool"
    /\ pc[t] = "queued"
    /\ \A u \in TaskIds : u < t => pc[u] # "queued"
    /\ Cardinality({u \in TaskIds : Running(u)}) < processes
    /\ LET lg == log \cup {LogRecord("info", tasks[t], "started")}
       IN  IF "files" \notin DOMAIN tasks[t].item
           THEN Except(t, "KeyError files", obs[t], lg)
           ELSE IF ~fs.design[DesignPath(t)]
           THEN Except(t, "design not found", obs[t], lg)
           ELSE \E raise \in BOOLEAN :
                    IF raise
                    THEN Except(t, "design read", obs[t], lg)
                    ELSE /\ pc' = [pc EXCEPT ![t] = "tree_check"]
                         /\ log' = lg
                         /\ UNCHANGED <<obs, result, finished, mainPc>>
    /\ UNCHANGED <<args, collection, tasks, fs, fs0, local, report, runNo, prev>>

\* run lines 83-84, where the arguments of get_tree_data are evaluated, and
\* get_tree_data, lines 54-56: the cache decision, mkdir and the parser call
get_tree_check(t) ==
    /\ mainPc = "pool"
    /\ pc[t] = "tree_check"
    /\ LET p == TreePath(t)
           seen == is_file(fs.tree[p])
           o == [obs[t] EXCEPT !.treeSeen = IF seen THEN "present" ELSE "absent"]
       IN  IF "majority_support" \notin DOMAIN tasks[t].item
           THEN /\ Except(t, "KeyError majority_support", obs[t], log)
                /\ UNCHANGED <<fs, local>>
           ELSE IF TreeMiss(overwrite, seen)
           THEN /\ fs' = [fs EXCEPT !.treeDir = @ \cup {p}]
                /\ \E raise \in BOOLEAN :
                     IF raise
                     THEN /\ Except(t, "parse", [o EXCEPT !.parse = TRUE], log)
                          /\ UNCHANGED local
                     ELSE /\ Goto(t, "tree_open", [o EXCEPT !.parse = TRUE])
                          /\ local' = [local EXCEPT ![t].tree_data = Parse(DesignPath(t))]
           ELSE /\ Goto(t, "tree_read", o)
                /\ UNCHANGED <<fs, local>>
    /\ UNCHANGED <<args, collection, tasks, fs0, report, runNo, prev>>

\* line 57: open('w') creates or truncates the file
get_tree_open(t) ==
    /\ mainPc = "pool"
    /\ pc[t] = "tree_open"
    /\ fs' = [fs EXCEPT !.tree[TreePath(t)] = Partial]
    /\ Goto(t, "tree_write", [obs[t] EXCEPT !.treeOpened = TRUE])
    /\ UNCHANGED <<args, collection, tasks, fs0, local, report, runNo, prev>>

\* What a completed write leaves in a file: the text, unless another process
\* has written or still holds open the same file since this one truncated it
\* (two writers at offset 0), and then the text or a garbled file.
Written(content, otherWriter, text) ==
    IF content # Partial \/ otherWriter THEN {text, Partial} ELSE {text}

\* lines 58-59: serialize, write and close; the tree was recomputed
get_tree_write(t) ==
    /\ mainPc = "pool"
    /\ pc[t] = "tree_write"
    /\ LET p == TreePath(t)
           other == \E u \in TaskIds \ {t} : pc[u] = "tree_write" /\ TreePath(u) = p
       IN  \E raise \in BOOLEAN :
             IF raise
             THEN /\ Except(t, "tree write", obs[t], log)
                  /\ UNCHANGED <<fs, local>>
             ELSE /\ \E c \in Written(fs.tree[p], other, Serialize(local[t].tree_data)) :
                       fs' = [fs EXCEPT !.tree[p] = c]
                  /\ local' = [local EXCEPT ![t].tree_overwritten = TRUE]
                  /\ Goto(t, "entropy_check", [obs[t] EXCEPT !.treeWrote = TRUE])
    /\ UNCHANGED <<args, collection, tasks, fs0, report, runNo, prev>>

\* lines 61-63: read the cached tree and deserialize it
get_tree_read(t) ==
    /\ mainPc = "pool"
    /\ pc[t] = "tree_read"
    /\ LET content == fs.tree[TreePath(t)]
       IN  IF DeserializeRaises(content)
           THEN /\ Except(t, "tree deserialize", obs[t], log)
                /\ UNCHANGED local
           ELSE /\ local' = [local EXCEPT ![t].tree_data = Deserialize(content),
                                          ![t].tree_overwritten = FALSE]
                /\ Goto(t, "entropy_check", obs[t])
    /\ UNCHANGED <<args, collection, tasks, fs, fs0, report, runNo, prev>>

\* run line 87 and generate_entropy_data lines 67-69 and 73: the cache
\* decision, mkdir and the entropy call; on a hit run() returns (lines 89-90)
generate_entropy_check(t) ==
    /\ mainPc = "pool"
    /\ pc[t] = "entropy_check"
    /\ LET p == EntropyPath(t)
           seen == is_file(fs.entropy[p])
           ow == EntropyOverwriteArg(overwrite, local[t].tree_overwritten)
           o == [obs[t] EXCEPT !.entropySeen = IF seen THEN "present" ELSE "absent"]
       IN  IF EntropyMiss(ow, seen)
           THEN /\ fs' = [fs EXCEPT !.entropyDir = @ \cup {p}]
                /\ \E raise \in BOOLEAN :
                     IF raise
                     THEN /\ Except(t, "entropy", [o EXCEPT !.entropy = TRUE], log)
                          /\ UNCHANGED local
                     ELSE /\ Goto(t, "entropy_open", [o EXCEPT !.entropy = TRUE])
                          /\ local' = [local EXCEPT
                                         ![t].entropy_data = Entropy(local[t].tree_data)]
           ELSE /\ Return(t, Row(tasks[t], local[t].tree_overwritten, FALSE), o)
                /\ UNCHANGED <<fs, local>>
    /\ UNCHANGED <<args, collection, tasks, fs0, report, runNo, prev>>

\* line 70
generate_entropy_open(t) ==
    /\ mainPc = "pool"
    /\ pc[t] = "entropy_open"
    /\ fs' = [fs EXCEPT !.entropy[EntropyPath(t)] = Partial]
    /\ Goto(t, "entropy_write", [obs[t] EXCEPT !.entropyOpened = TRUE])
    /\ UNCHANGED <<args, collection, tasks, fs0, local, report, runNo, prev>>

\* lines 71-72, then run lines 89-90
generate_entropy_write(t) ==
    /\ mainPc = "pool"
    /\ pc[t] = "entropy_write"
    /\ LET p == EntropyPath(t)
           other == \E u \in TaskIds \ {t} : pc[u] = "entropy_write" /\ EntropyPath(u) = p
       IN  \E raise \in BOOLEAN :
             IF raise
             THEN /\ Except(t, "entropy write", obs[t], log)
                  /\ UNCHANGED fs
             ELSE /\ \E c \in Written(fs.entropy[p], other, Serialize(local[t].entropy_data)) :
                       fs' = [fs EXCEPT !.entropy[p] = c]
                  /\ Return(t, Row(tasks[t], local[t].tree_overwritten, TRUE),
                            [obs[t] EXCEPT !.entropyWrote = TRUE])
    /\ UNCHANGED <<args, collection, tasks, fs0, local, report, runNo, prev>>

----------------------------------------------------------------------------
(* main(), after the pool *)

\* a report built without waiting for the tasks (starmap_async, no get)
MainReport_nojoin ==
    /\ mainPc = "pool"
    /\ report' = FilterNone(starmap(result, finished))
    /\ mainPc' = "exit"
    /\ UNCHANGED <<args, collection, tasks, fs, fs0, taskVars, log, runNo, prev>>

\* lines 129-132: starmap returns when every task has returned; the rows
\* that are not None make the report
MainReport ==
    /\ mainPc = "pool"
    /\ \A t \in TaskIds : pc[t] = "done"
    /\ report' = FilterNone(starmap(result, finished))
    /\ mainPc' = "exit"
    /\ UNCHANGED <<args, collection, tasks, fs, fs0, taskVars, log, runNo, prev>>

NoPrev == [overwrite |-> FALSE, result |-> <<>>, report |-> <<>>,
           treeWritten |-> {}, entropyWritten |-> {}]

\* The program is invoked again over the same root with the same description
\* and rules; only the overwrite flag may differ.  The files stay.
Rerun ==
    /\ mainPc = "exit"
    /\ runNo < MaxRuns
    /\ runNo' = runNo + 1
    /\ prev' = [overwrite |-> overwrite, result |-> result, report |-> report,
                treeWritten |-> {TreePath(t) : t \in {u \in TaskIds : obs[u].treeWrote}},
                entropyWritten |->
                    {EntropyPath(t) : t \in {u \in TaskIds : obs[u].entropyWrote}}]
    /\ overwrite' \in BOOLEAN
    /\ fs0' = fs
    /\ mainPc' = "load"
    /\ collection' = {}
    /\ tasks' = <<>>
    /\ pc' = <<>>
    /\ local' = <<>>
    /\ obs' = <<>>
    /\ result' = <<>>
    /\ finished' = <<>>
    /\ log' = {}
    /\ report' = <<>>
    /\ UNCHANGED <<benchmarks, accept, ignore, processes, unreadable, fs>>

----------------------------------------------------------------------------
(* Specifications *)

Item(k, tree, entropy) ==
    [name |-> ItemName(k), majority_support |-> FALSE,
     files |-> [design |-> k, tree |-> tree, entropy |-> entropy]]

\* Descriptions of a run: one benchmark of MaxItems items.  Item k names
\* design k and any tree and entropy path among 1..k, so two items may name
\* the same artifact path (nothing in main() or run() forbids it).
RunDescriptions ==
    {<<[name |-> "A", list |-> [k \in Paths |-> Item(k, tp[k], ep[k])]]>> :
        tp \in {f \in [Paths -> Paths] : \A k \in Paths : f[k] <= k},
        ep \in {f \in [Paths -> Paths] : \A k \in Paths : f[k] <= k}}

UsedTree(bs) == {e.item.files.tree : e \in Range(Entries(bs))}
UsedEntropy(bs) == {e.item.files.entropy : e \in Range(Entries(bs))}

\* File states a run may start from: any design present or missing; a tree
\* file missing, unreadable or left by an earlier revision; an entropy file
\* missing or left by an earlier revision.  A directory exists where a file does.
InitialFs(bs) ==
    {[design |-> d, tree |-> tr, entropy |-> en,
      treeDir |-> {p \in Paths : is_file(tr[p])},
      entropyDir |-> {p \in Paths : is_file(en[p])}] :
        d \in [Paths -> BOOLEAN],
        tr \in {f \in [Paths -> {Absent, Partial, Text(0)}] :
                   \A p \in Paths \ UsedTree(bs) : f[p] = Absent},
        en \in {f \in [Paths -> {Absent, Text(0)}] :
                   \A p \in Paths \ UsedEntropy(bs) : f[p] = Absent}}

InitRest ==
    /\ mainPc = "load"
    /\ collection = {}
    /\ tasks = <<>>
    /\ pc = <<>>
    /\ local = <<>>
    /\ obs = <<>>
    /\ result = <<>>
    /\ finished = <<>>
    /\ log = {}
    /\ report = <<>>
    /\ runNo = 1
    /\ prev = NoPrev

Init ==
    /\ unreadable = {}
    /\ benchmarks \in RunDescriptions
    /\ accept = NoFile
    /\ ignore \in {NoFile, File(<<[benchmark |-> "A", list |-> <<ItemName(1)>>]>>)}
    /\ overwrite \in BOOLEAN
    /\ processes \in 1 .. MaxProcesses
    /\ fs \in InitialFs(benchmarks)
    /\ fs0 = fs
    /\ InitRest

Next ==
    \/ MainLoad
    \/ MainAccept
    \/ MainIgnore
    \/ MainTasks
    \/ \E t \in TaskIds : RunStart(t)
    \/ \E t \in TaskIds : get_tree_check(t)
    \/ \E t \in TaskIds : get_tree_open(t)
    \/ \E t \in TaskIds : get_tree_write(t)
    \/ \E t \in TaskIds : get_tree_read(t)
    \/ \E t \in TaskIds : generate_entropy_check(t)
    \/ \E t \in TaskIds : generate_entropy_open(t)
    \/ \E t \in TaskIds : generate_entropy_write(t)
    \/ MainReport
    \/ Rerun

Spec == Init /\ [][Next]_vars

\* One invocation
NextOnce ==
    \/ MainLoad
    \/ MainAccept
    \/ MainIgnore
    \/ MainTasks
    \/ \E t \in TaskIds : RunStart(t)
    \/ \E t \in TaskIds : get_tree_check(t)
    \/ \E t \in TaskIds : get_tree_open(t)
    \/ \E t \in TaskIds : get_tree_write(t)
    \/ \E t \in TaskIds : get_tree_read(t)
    \/ \E t \in TaskIds : generate_entropy_check(t)
    \/ \E t \in TaskIds : generate_entropy_open(t)
    \/ \E t \in TaskIds : generate_entropy_write(t)
    \/ MainReport

----------------------------------------------------------------------------
(* The selection alone: main() from the description to the task list, over
   many descriptions and rule files *)

SelItem(n) ==
    [name |-> n, majority_support |-> FALSE,
     files |-> [design |-> 1, tree |-> 1, entropy |-> 1]]

\* Benchmarks "A" and "B"; an item name may be listed twice.
SelDescriptions ==
    {<<[name |-> "A", list |-> [j \in DOMAIN la |-> SelItem(la[j])]],
       [name |-> "B", list |-> [j \in DOMAIN lb |-> SelItem(lb[j])]]>> :
        la \in {<<>>, <<"x">>, <<"x", "y">>, <<"y", "x">>, <<"x", "x">>},
        lb \in {<<>>, <<"x">>}}

\* Rules: with no 'list', with an empty one, with one name; "C" is a
\* benchmark of no description.
RuleSet ==
    {[benchmark |-> b] : b \in {"A", "B", "C"}}
    \cup {[benchmark |-> b, list |-> l] : b \in {"A", "B", "C"}, l \in {<<>>, <<"x">>}}

SeqsUpTo(S, n) == UNION {[1 .. k -> S] : k \in 0 .. n}

EmptyFs ==
    [design |-> [p \in Paths |-> FALSE], tree |-> [p \in Paths |-> Absent],
     entropy |-> [p \in Paths |-> Absent], treeDir |-> {}, entropyDir |-> {}]

InitSel ==
    /\ unreadable = {}
    /\ benchmarks \in SelDescriptions
    /\ accept \in {NoFile} \cup {File(r) : r \in SeqsUpTo(RuleSet, MaxRules)}
    /\ ignore \in {NoFile} \cup {File(r) : r \in SeqsUpTo(RuleSet, 1)}
    /\ overwrite = FALSE
    /\ processes = 1
    /\ fs = EmptyFs
    /\ fs0 = fs
    /\ InitRest

NextSel ==
    \/ MainLoad
    \/ MainAccept
    \/ MainIgnore
    \/ MainTasks

SpecSel == InitSel /\ [][NextSel]_vars

----------------------------------------------------------------------------
(* Runs over descriptions and rule files that may be malformed *)

\* Item k of a description, without the key named by lacking ("none": whole)
InputItem(k, lacking) ==
    LET it == Item(k, k, k)
    IN  [f \in DOMAIN it \ {lacking} |-> it[f]]

\* One benchmark: whole, with items that may each lack a key; without its
\* 'list'; or without its 'name', with no item or with whole items.
InputDescriptions ==
    {<<[name |-> "A", list |-> [k \in Paths |-> InputItem(k, lk[k])]]>> :
        lk \in [Paths -> {"none", "name", "files", "majority_support"}]}
    \cup {<<[name |-> "A"]>>}
    \cup {<<[list |-> l]>> : l \in {<<>>, [k \in Paths |-> InputItem(k, "none")]}}

\* Rule files: none; a rule for "A"; a rule for a benchmark of no
\* description; a rule without 'benchmark'.
InputRules ==
    {NoFile, File(<<[benchmark |-> "A", list |-> <<ItemName(1)>>]>>),
     File(<<[benchmark |-> "B"]>>), File(<<[list |-> <<ItemName(1)>>]>>)}

\* Designs are present; the artifact files are all missing or all left by
\* an earlier revision.
InputFs ==
    {[design |-> [p \in Paths |-> TRUE], tree |-> [p \in Paths |-> c],
      entropy |-> [p \in Paths |-> c],
      treeDir |-> {p \in Paths : is_file(c)},
      entropyDir |-> {p \in Paths : is_file(c)}] : c \in {Absent, Text(0)}}

InitInput ==
    /\ benchmarks \in InputDescriptions
    /\ accept \in InputRules
    /\ ignore \in InputRules
    /\ unreadable \in {{}, {"benchmarks"}}
                       \cup {{"accept"} : x \in {accept} \ {NoFile}}
                       \cup {{"ignore"} : x \in {ignore} \ {NoFile}}
    /\ overwrite \in BOOLEAN
    /\ processes \in 1 .. MaxProcesses
    /\ fs \in InputFs
    /\ fs0 = fs
    /\ InitRest

SpecInput == InitInput /\ [][NextOnce]_vars

----------------------------------------------------------------------------
(* Claims about the selection (checked under SpecSel) *)

\* The rule filter as the specification states it: the members of U that
\* match at least one rule of R.
Matches(r, t) ==
    /\ r.benchmark = t[1]
    /\ IF "list" \in DOMAIN r THEN r.list = <<>> \/ (\E j \in DOMAIN r.list : r.list[j] = t[2])
       ELSE TRUE
Selected(U, R) == {t \in U : \E j \in DOMAIN R : Matches(R[j], t)}

\* C8: after the accept pass of a run given an accept file, the collection
\* is exactly the set of identities of the universe matched by at least one
\* accept rule (so: empty for an empty rule list, every entry of benchmark b
\* for the single rule {benchmark: b}, always a subset of the universe, and
\* nothing for a rule naming a benchmark the universe lacks); and after the
\* ignore pass of a run given an ignore file, what was removed is exactly
\* what the ignore rules match in the accepted collection.
C8_ApplyRulesIsSetBuilder ==
    LET U == Universe(benchmarks)
        A == IF accept.given THEN Selected(U, accept.rules) ELSE U
    IN  /\ (mainPc = "ignore" /\ accept.given) => collection = Selected(U, accept.rules)
        /\ (mainPc \in {"tasks", "pool"} /\ ignore.given)
              => collection = A \ Selected(A, ignore.rules)

\* C8 witness: two accept rules, one with a list that leaves an entry of its
\* benchmark out and one naming a benchmark absent from the universe, have
\* been applied and selected part of the universe.
C8_Witness ==
    /\ mainPc = "ignore"
    /\ accept.given
    /\ Len(accept.rules) = 2
    /\ \E j \in DOMAIN accept.rules : accept.rules[j].benchmark = "C"
    /\ \E j \in DOMAIN accept.rules :
          /\ "list" \in DOMAIN accept.rules[j]
          /\ accept.rules[j].list = <<"x">>
          /\ accept.rules[j].benchmark = "A"
    /\ collection # {}
    /\ collection # Universe(benchmarks)
    /\ <<"A", "y">> \in Universe(benchmarks)

NoRules(f) == ~f.given \/ f.rules = <<>>

\* C9 (as claimed): with no accept rules (no accept file, or one whose rule
\* list is empty) the collection after the accept pass is the whole
\* universe; with no ignore rules the ignore pass removes nothing.
C9_NoRulesSelectsAll ==
    LET U == Universe(benchmarks)
    IN  /\ (mainPc = "ignore" /\ NoRules(accept)) => collection = U
        /\ (mainPc \in {"tasks", "pool"} /\ NoRules(ignore))
              => collection = (IF accept.given THEN Selected(U, accept.rules) ELSE U)

----------------------------------------------------------------------------
(* Claims about a run (checked under Spec) *)

Succeeded(t) == result[t].kind = "row"
Failed(t) == result[t].kind = "None"
InPool == mainPc \in {"pool", "exit"}
RowOf(t) ==
    {j \in DOMAIN report :
        report[j].benchmark = tasks[t].benchmark /\ report[j].name = tasks[t].item.name}

C2_ForwardStaleness ==
    InPool =>
        \A t \in TaskIds :
            (Succeeded(t) /\ result[t].tree_overwritten)
                => /\ result[t].entropy_overwritten
                   /\ obs[t].entropy
                   /\ obs[t].entropyWrote

\* C2 witness: overwrite is off, the entropy file existed when it was
\* checked, and the task still rewrote it because it had recomputed the tree.
C2_Witness ==
    /\ InPool
    /\ ~overwrite
    /\ \E t \in TaskIds :
          /\ Succeeded(t)
          /\ result[t].tree_overwritten
          /\ result[t].entropy_overwritten
          /\ obs[t].entropySeen = "present"

\* The cache policy as the specification states it, from what the task saw.
TreeDue(t) ==
    /\ obs[t].treeSeen # "unchecked"
    /\ overwrite \/ obs[t].treeSeen = "absent"
EntropyDue(t) ==
    /\ obs[t].entropySeen # "unchecked"
    /\ overwrite \/ obs[t].entropySeen = "absent" \/ obs[t].treeWrote

\* C3: for every task that reaches the check of get_tree_data, the parser
\* is called iff overwrite is set or the tree file was absent at the check,
\* and the tree file is opened for writing only then; likewise the entropy
\* computation is called iff overwrite is set, the entropy file was absent
\* at its check or the task rewrote the tree, and the entropy file is opened
\* for writing only then.  A task that returns success has rewritten
\* exactly the artifacts that were due, and its flags say so.
C3_CachePolicy ==
    InPool =>
        \A t \in TaskIds :
            /\ obs[t].parse <=> TreeDue(t)
            /\ obs[t].treeOpened => obs[t].parse
            /\ obs[t].treeWrote => obs[t].treeOpened
            /\ obs[t].entropy <=> EntropyDue(t)
            /\ obs[t].entropyOpened => obs[t].entropy
            /\ obs[t].entropyWrote => obs[t].entropyOpened
            /\ Succeeded(t) =>
                  /\ obs[t].treeWrote <=> TreeDue(t)
                  /\ obs[t].entropyWrote <=> EntropyDue(t)
                  /\ result[t].tree_overwritten <=> obs[t].treeWrote
                  /\ result[t].entropy_overwritten <=> obs[t].entropyWrote

\* C3 witness: in one run without overwrite, one task found its tree file,
\* did not call the parser, found no entropy file and wrote it.
C3_Witness ==
    /\ InPool
    /\ ~overwrite
    /\ \E t \in TaskIds :
          /\ Succeeded(t)
          /\ obs[t].treeSeen = "present"
          /\ ~obs[t].parse
          /\ obs[t].entropySeen = "absent"
          /\ obs[t].entropyWrote

SecondOfTwo == runNo >= 2 /\ ~prev.overwrite /\ ~overwrite /\ mainPc = "exit"

\* C4 (as claimed): in the second of two consecutive runs without overwrite,
\* every row of the report has both flags false.
C4_SecondRunAllFalse ==
    SecondOfTwo =>
        \A j \in DOMAIN report :
            ~report[j].tree_overwritten /\ ~report[j].entropy_overwritten

\* C4 (amended): in the second of two consecutive runs without overwrite,
\* every row of a task that returned success in the first run has both
\* flags false.
C4_SecondRunFalseAfterSuccess ==
    SecondOfTwo =>
        \A t \in TaskIds :
            (Succeeded(t) /\ prev.result[t].kind = "row")
                => ~result[t].tree_overwritten /\ ~result[t].entropy_overwritten

\* C4 witness: a task computed both artifacts in the first run and has a
\* row with both flags false in the second.
C4_Witness ==
    /\ SecondOfTwo
    /\ \E t \in TaskIds :
          /\ prev.result[t].kind = "row"
          /\ prev.result[t].tree_overwritten
          /\ prev.result[t].entropy_overwritten
          /\ Succeeded(t)
          /\ \E j \in RowOf(t) : report[j] = result[t]

\* Position of a task in the description, and of a successful task among
\* the successful ones.
EntryPos(t) == CHOOSE j \in DOMAIN Entries(benchmarks) : Entries(benchmarks)[j] = tasks[t]
Rank(t) == Cardinality({u \in TaskIds : u <= t /\ Succeeded(u)})

\* C5: the task list follows the order of the description, and the report
\* holds exactly the outcomes of the successful tasks, in task order.
C5_OrderPreserved ==
    /\ InPool => \A t, u \in TaskIds : t < u => EntryPos(t) < EntryPos(u)
    /\ mainPc = "exit" =>
          /\ Len(report) = Cardinality({t \in TaskIds : Succeeded(t)})
          /\ \A t \in TaskIds : Succeeded(t) => report[Rank(t)] = result[t]

\* C5 witness: the second task returned before the first, both succeeded,
\* and the report lists the first task first.
C5_Witness ==
    /\ mainPc = "exit"
    /\ Len(finished) >= 2
    /\ finished[1] = 2
    /\ finished[2] = 1
    /\ Succeeded(1)
    /\ Succeeded(2)
    /\ report[1] = result[1]
    /\ report[2] = result[2]
    /\ result[1] # result[2]

\* C10: when the report is written, a task has a row iff it returned
\* success; and every task that failed has no row and an error record in
\* the log with its benchmark, its item and the cause.
C10_ReportComplete ==
    /\ mainPc = "exit" =>
          /\ \A t \in TaskIds : (RowOf(t) # {}) <=> Succeeded(t)
          /\ Len(report) = Cardinality({t \in TaskIds : Succeeded(t)})
    /\ InPool =>
          \A t \in TaskIds :
              Failed(t) =>
                  \E r \in log :
                      /\ r.level = "error"
                      /\ r.benchmark = tasks[t].benchmark
                      /\ r.name = tasks[t].item.name
                      /\ r.msg = obs[t].raised
                      /\ r.msg # "none"

\* C10 witness: a run ended with one task failed in the entropy computation,
\* logged and without a row, and another task with a row.
C10_Witness ==
    /\ mainPc = "exit"
    /\ \E t, u \in TaskIds :
          /\ Failed(t)
          /\ obs[t].raised = "entropy"
          /\ RowOf(t) = {}
          /\ LogRecord("error", tasks[t], "entropy") \in log
          /\ Succeeded(u)
          /\ RowOf(u) # {}

----------------------------------------------------------------------------
(* Worker-count independence and shared paths (checked under Spec) *)

\* The steps whose raising is decided outside the program: the design read,
\* the parser, the entropy computation and the two writes.  The remaining
\* causes (design not found, tree deserialize) follow from the files.
External == {"design read", "parse", "tree write", "entropy", "entropy write"}
Fate(t) == IF obs[t].raised \in External THEN obs[t].raised ELSE "none"

\* run() executed alone and to its end on the files f, with the external
\* step named by fate raising if it is reached: the files it leaves and the
\* outcome it returns.
SoloEntropy(task, f, ow, fate, tree_data, tree_overwritten) ==
    LET p == task.item.files.entropy
        seen == is_file(f.entropy[p])
        f1 == [f EXCEPT !.entropyDir = @ \cup {p}]
        f2 == [f1 EXCEPT !.entropy[p] = Partial]
        f3 == [f1 EXCEPT !.entropy[p] = Text(tree_data)]
    IN  IF ow \/ tree_overwritten \/ ~seen
        THEN IF fate = "entropy" THEN [fs |-> f1, result |-> None]
             ELSE IF fate = "entropy write" THEN [fs |-> f2, result |-> None]
             ELSE [fs |-> f3, result |-> Row(task, tree_overwritten, TRUE)]
        ELSE [fs |-> f, result |-> Row(task, tree_overwritten, FALSE)]

SoloRun(task, f, ow, fate) ==
    LET d == task.item.files.design
        p == task.item.files.tree
        seen == is_file(f.tree[p])
        f1 == [f EXCEPT !.treeDir = @ \cup {p}]
        f2 == [f1 EXCEPT !.tree[p] = Partial]
        f3 == [f1 EXCEPT !.tree[p] = Text(d)]
    IN  IF ~f.design[d] \/ fate = "design read" THEN [fs |-> f, result |-> None]
        ELSE IF ow \/ ~seen
        THEN IF fate = "parse" THEN [fs |-> f1, result |-> None]
             ELSE IF fate = "tree write" THEN [fs |-> f2, result |-> None]
             ELSE SoloEntropy(task, f3, ow, fate, d, TRUE)
        ELSE IF f.tree[p].st # "ok" THEN [fs |-> f, result |-> None]
             ELSE SoloEntropy(task, f, ow, fate, f.tree[p].v, FALSE)

\* The tasks executed one after another in task order, from the files f.
RECURSIVE SeqRun(_, _, _)
SeqRun(n, f, ow) ==
    IF n = 0 THEN [fs |-> f, result |-> <<>>]
    ELSE LET before == SeqRun(n - 1, f, ow)
             this == SoloRun(tasks[n], before.fs, ow, Fate(n))
         IN  [fs |-> this.fs, result |-> Append(before.result, this.result)]

Sequential == SeqRun(Len(tasks), fs0, overwrite)

\* C6 (as claimed): a run that has ended, with any worker count and any
\* interleaving, has the list of outcomes and the final files of the
\* sequential execution of the same tasks from the same files with the
\* same external results.
C6_SameAsSequential ==
    mainPc = "exit" => result = Sequential.result /\ fs = Sequential.fs

\* No two tasks of the description name the same tree path or the same
\* entropy path.
DistinctPaths ==
    \A i, j \in DOMAIN Entries(benchmarks) :
        i # j => /\ Entries(benchmarks)[i].item.files.tree # Entries(benchmarks)[j].item.files.tree
                 /\ Entries(benchmarks)[i].item.files.entropy # Entries(benchmarks)[j].item.files.entropy

\* What C6 states holds of the runs of one worker, and of the runs whose
\* description names no artifact path twice.
SequentialWhenOneWorker == processes = 1 => C6_SameAsSequential
SequentialWhenDistinctPaths == DistinctPaths => C6_SameAsSequential

\* C7 (as claimed): no two tasks that are running at the same time name the
\* same tree path or the same entropy path; in particular no task is at a
\* check, read or open of a file that another running task has open for
\* writing.
C7_NoSharedPath ==
    InPool =>
        \A t, u \in TaskIds :
            (t # u /\ Running(t) /\ Running(u))
                => /\ TreePath(t) # TreePath(u)
                   /\ EntropyPath(t) # EntropyPath(u)
                   /\ ~(pc[u] = "tree_write" /\ TreePath(t) = TreePath(u)
                         /\ pc[t] \in {"tree_check", "tree_open", "tree_read"})
                   /\ ~(pc[u] = "entropy_write" /\ EntropyPath(t) = EntropyPath(u)
                         /\ pc[t] \in {"entropy_check", "entropy_open"})

----------------------------------------------------------------------------
(* Unreadable and partial artifacts (checked under Spec) *)

\* C11 (as claimed): a task that finds an existing tree file it cannot
\* deserialize, with overwrite off, treats it as a miss: it does not end as
\* a failure on that file (it recomputes, rewrites and succeeds), so no run
\* ever fails on such a file.
C11_SelfHealingCache ==
    InPool =>
        \A t \in TaskIds :
            (~overwrite /\ obs[t].treeSeen = "present" /\ pc[t] = "done")
                => ~(Failed(t) /\ obs[t].raised = "tree deserialize")

\* The entropy file of a task holds the entropy of the tree its tree file
\* holds, when both are complete.
Coherent(f, t) ==
    (f.tree[TreePath(t)].st = "ok" /\ f.entropy[EntropyPath(t)].st = "ok")
        => f.entropy[EntropyPath(t)].v = Entropy(f.tree[TreePath(t)].v)

\* C17 (as claimed): when a run has ended, for every task whose two artifact
\* files exist, the entropy file is the entropy of the tree now in the tree
\* file; in particular this holds of every task reported successful with
\* both flags false.
C17_TreeEntropyCoherent ==
    mainPc = "exit" => \A t \in TaskIds : Coherent(fs, t)

\* C18 (as claimed): when a run has ended, every artifact file that a task
\* of the run opened for writing holds a complete serialization, whether
\* the task succeeded or failed; and no task takes as a cache hit an entropy
\* file that holds none.
C18_NoPartialArtifact ==
    /\ mainPc = "exit" =>
          \A t \in TaskIds :
              /\ obs[t].treeOpened => fs.tree[TreePath(t)].st = "ok"
              /\ obs[t].entropyOpened => fs.entropy[EntropyPath(t)].st = "ok"
    /\ InPool =>
          \A t \in TaskIds :
              (Succeeded(t) /\ ~result[t].entropy_overwritten)
                  => fs.entropy[EntropyPath(t)].st = "ok"

----------------------------------------------------------------------------
(* Dispatch and rule order (checked under SpecSel) *)

Identity(task) == <<task.benchmark, task.item.name>>

\* C13 (as claimed): the task list handed to the pool holds every identity
\* of the final selection (accepted minus ignored) exactly once and no
\* identity outside it, so no task matched by an ignore rule is started.
C13_UniqueDispatch ==
    mainPc = "pool" =>
        LET U == Universe(benchmarks)
            A == IF accept.given THEN Selected(U, accept.rules) ELSE U
            F == IF ignore.given THEN A \ Selected(A, ignore.rules) ELSE A
        IN  /\ \A id \in F : Cardinality({t \in TaskIds : Identity(tasks[t]) = id}) = 1
            /\ \A t \in TaskIds : Identity(tasks[t]) \in F

\* The task list holds no identity outside the final selection: what C13
\* states apart from "exactly once".
DispatchWithinSelection ==
    mainPc = "pool" =>
        LET U == Universe(benchmarks)
            A == IF accept.given THEN Selected(U, accept.rules) ELSE U
            F == IF ignore.given THEN A \ Selected(A, ignore.rules) ELSE A
        IN  /\ \A id \in F : \E t \in TaskIds : Identity(tasks[t]) = id
            /\ \A t \in TaskIds : Identity(tasks[t]) \in F

\* The rule lists that order the rules of R differently, and R twice.
Reorderings(R) ==
    {[j \in DOMAIN R |-> R[p[j]]] :
        p \in {q \in [DOMAIN R -> DOMAIN R] : \A i, j \in DOMAIN R : q[i] = q[j] => i = j}}
    \cup {R \o R}

\* C16: the collection the accept pass produced from its rule list is what
\* apply_rules gives for every reordering of that list and for the list with
\* every rule repeated; likewise what the ignore pass left.
C16_RuleOrderIndependent ==
    LET U == Universe(benchmarks)
        A == AfterAccept(U, accept)
    IN  /\ (mainPc = "ignore" /\ accept.given)
              => \A R \in Reorderings(accept.rules) : collection = apply_rules(U, R)
        /\ (mainPc \in {"tasks", "pool"} /\ ignore.given)
              => \A R \in Reorderings(ignore.rules) : collection = A \ apply_rules(A, R)

\* C16 witness: two accept rules for the same benchmark, one selecting all
\* of it and one a single item, were applied to a universe with two items of
\* that benchmark, and both items were selected.
C16_Witness ==
    /\ mainPc = "ignore"
    /\ accept = File(<<[benchmark |-> "A", list |-> <<"x">>], [benchmark |-> "A"]>>)
    /\ collection = {<<"A", "x">>, <<"A", "y">>}

----------------------------------------------------------------------------
(* Cache hits (checked under Spec) *)

FullHit(t) ==
    /\ ~overwrite
    /\ obs[t].treeSeen = "present"
    /\ obs[t].entropySeen = "present"
    /\ Succeeded(t)

\* A task without overwrite that found both its files and could read its
\* tree called neither computation and opened neither file for writing; and
\* a file differs from what the run started with, or a directory is new,
\* only where some task of the run took the recompute branch for that path.
HitWritesNothing ==
    InPool =>
        /\ \A t \in TaskIds :
              FullHit(t) => /\ ~obs[t].parse /\ ~obs[t].treeOpened
                            /\ ~obs[t].entropy /\ ~obs[t].entropyOpened
        /\ \A p \in Paths :
              /\ fs.tree[p] # fs0.tree[p]
                    => \E t \in TaskIds : TreePath(t) = p /\ obs[t].treeOpened
              /\ p \in fs.treeDir \ fs0.treeDir
                    => \E t \in TaskIds : TreePath(t) = p /\ obs[t].parse
              /\ fs.entropy[p] # fs0.entropy[p]
                    => \E t \in TaskIds : EntropyPath(t) = p /\ obs[t].entropyOpened
              /\ p \in fs.entropyDir \ fs0.entropyDir
                    => \E t \in TaskIds : EntropyPath(t) = p /\ obs[t].entropy

\* In the second of two consecutive runs without overwrite, every artifact
\* file the first run wrote is as the first run left it.
SecondRunKeepsFiles ==
    (runNo >= 2 /\ ~prev.overwrite /\ ~overwrite) =>
        /\ \A p \in prev.treeWritten : fs.tree[p] = fs0.tree[p]
        /\ \A p \in prev.entropyWritten : fs.entropy[p] = fs0.entropy[p]

\* C14 (as claimed): a cache hit writes nothing, and hence a second
\* consecutive run without overwrite leaves every artifact file written by
\* the first run identical.
C14_CacheHitsWriteNothing == HitWritesNothing /\ SecondRunKeepsFiles

\* What C14 states holds of the descriptions that name no artifact path twice.
KeepsFilesWhenDistinctPaths == DistinctPaths => C14_CacheHitsWriteNothing

----------------------------------------------------------------------------
(* One invocation, with progress *)

\* main() and the workers are running processes, and every external call
\* returns or raises: as long as some step can be taken, one is taken.
SpecLive == Init /\ [][NextOnce]_vars /\ WF_vars(NextOnce)

\* C15: the report is written only when every task has returned its
\* outcome (before that there is no report), and every run eventually
\* writes its report, however many of its tasks fail.
C15_JoinThenReport ==
    /\ [](mainPc = "exit" => \A t \in TaskIds : pc[t] = "done" /\ result[t] # Pending)
    /\ [](mainPc # "exit" => report = <<>>)
    /\ <>(mainPc = "exit")

\* C15 witness: a run of two tasks has ended, both failed, and the report
\* was written, empty.
C15_Witness ==
    /\ mainPc = "exit"
    /\ Len(tasks) = 2
    /\ \A t \in TaskIds : Failed(t)
    /\ report = <<>>

----------------------------------------------------------------------------
(* Claims about malformed input (checked under SpecInput) *)

InputMalformed ==
    \/ unreadable # {}
    \/ \E i \in DOMAIN benchmarks :
          \/ ~({"name", "list"} \subseteq DOMAIN benchmarks[i])
          \/ \E j \in DOMAIN benchmarks[i].list :
                ~({"name", "files", "majority_support"}
                      \subseteq DOMAIN benchmarks[i].list[j])
    \/ \E f \in {accept, ignore} :
          f.given /\ \E j \in DOMAIN f.rules : "benchmark" \notin DOMAIN f.rules[j]

NoWorkDone ==
    /\ \A t \in TaskIds : pc[t] = "queued"
    /\ fs = fs0
    /\ mainPc # "exit"

\* C12: when the description or a rule file is not valid JSON or lacks a
\* required key (benchmark: name, list; item: name, files,
\* majority_support; rule: benchmark), no task is ever dispatched, no file
\* is written and no report is produced.
C12_InputErrorsFatal == InputMalformed => NoWorkDone

\* What main() does check before the pool: text that is not JSON, a
\* benchmark without 'list', an item without 'name'.
FatalInMain ==
    (\/ unreadable # {}
     \/ \E i \in DOMAIN benchmarks :
           \/ "list" \notin DOMAIN benchmarks[i]
           \/ \E j \in DOMAIN benchmarks[i].list : "name" \notin DOMAIN benchmarks[i].list[j])
        => NoWorkDone /\ mainPc # "pool"

\* An item without 'files' or 'majority_support' fails as a task, inside
\* run(): its siblings run and the report is written.
ItemErrorIsTaskFailure ==
    \A t \in TaskIds :
        ~({"files", "majority_support"} \subseteq DOMAIN tasks[t].item) /\ pc[t] = "done"
            => Failed(t) /\ ~obs[t].treeOpened /\ ~obs[t].entropyOpened

====
